---- MODULE Spec2Model ----
(***************************************************************************)
(* Control flow of main() in                                               *)
(* examples/nlp/dialogue_state_tracking_generative/sgd_gen.py.             *)
(*                                                                         *)
(* The configuration (cfg) and the filesystem are the inputs of a run.     *)
(* Every call into the framework (pytorch_lightning, the NeMo model        *)
(* classes) is modelled as a call that returns; it is recorded in `calls`  *)
(* with the model instance and the trainer object it was made on.          *)
(* The tensor-parallel bookkeeping of lines 130-133 only writes AppState,  *)
(* which main() never reads again, and is left out.                        *)
(* Strings that the script inspects character by character (the            *)
(* pretrained model name) are sequences of one-character strings.          *)
(***************************************************************************)
EXTENDS Integers, Sequences, FiniteSets, TLC

\* Number of fragments a pretrained-model name is concatenated from.
MaxParts == 2

None == "None"
Unbound == "<unbound>"

\* ---------------------------------------------------------------- strings

bert == <<"b", "e", "r", "t">>
gpt == <<"g", "p", "t">>

Fragments ==
    { bert,
      <<"B", "E", "R", "T">>,
      gpt,
      <<"G", "P", "T">>,
      <<"t", "5">> }

RECURSIVE NamesOf(_)
NamesOf(n) ==
    IF n = 0 THEN { <<>> }
    ELSE LET S == NamesOf(n - 1)
         IN  S \cup { s \o f : s \in S, f \in Fragments }

Names == NamesOf(MaxParts)

\* str.lower() on the characters that occur in the names
LowerChar(c) ==
    CASE c = "B" -> "b"
      [] c = "E" -> "e"
      [] c = "R" -> "r"
      [] c = "T" -> "t"
      [] c = "G" -> "g"
      [] c = "P" -> "p"
      [] OTHER -> c

lower(s) == [i \in 1..Len(s) |-> LowerChar(s[i])]

\* Python's `needle in hay` on strings
Contains(hay, needle) ==
    \E i \in 1..(Len(hay) - Len(needle) + 1) :
        SubSeq(hay, i, i + Len(needle) - 1) = needle

\* Python truthiness of an optional string setting
Truthy(x) == x \notin {None, ""}

\* ------------------------------------------------------------------ state

VARIABLES
    cfg,          \* the configuration main() is called with
    fs0,          \* the paths that exist when main() starts
    fs,           \* the paths that exist now
    pc,           \* position in main()
    trainers,     \* the pl.Trainer objects created so far
    trainer,      \* local variable `trainer`: index into trainers
    model_class,  \* local variable `model_class`
    models,       \* the model instances created so far
    model,        \* local variable `model`: index into models, 0 = unbound
    calls,        \* the framework calls made so far, in order
    error         \* the exception main() ended with

vars == <<cfg, fs0, fs, pc, trainers, trainer, model_class,
          models, model, calls, error>>

Tasks == {"sgd", "assistant"}
PretrainedModels == {None, "sgdqa_bertbasecased"}
NemoPaths == {None, "/ckpt/model.nemo"}
DataDirs == {None, "/data/sgd"}
ExampleDirs == {None, "/data/sgd_examples"}
TestDs == {"absent", "ds_item_none", "ds_item_set"}

Configs ==
    [ pretrained_model_name : Names,
      task : Tasks,
      pretrained_model : PretrainedModels,
      nemo_path : NemoPaths,
      do_training : BOOLEAN,
      data_dir : DataDirs,
      dialogues_example_dir : ExampleDirs,
      test_ds : TestDs ]

\* the paths of a configuration that os.path.exists is asked about
ProbedPaths(c) == ({c.nemo_path, c.data_dir}) \ {None}

exists(path) == path \in fs

Init ==
    /\ cfg \in Configs
    /\ fs0 \in SUBSET ProbedPaths(cfg)
    /\ fs = fs0
    /\ pc = "main"
    /\ trainers = <<>>
    /\ trainer = 0
    /\ model_class = Unbound
    /\ models = <<>>
    /\ model = 0
    /\ calls = <<>>
    /\ error = "none"

\* a framework call; ret is the returned value where the script reads it
Call(op, m, t) == [op |-> op, model |-> m, trainer |-> t, ret |-> None]

\* ---------------------------------------------------------------- actions

\* lines 122-128: the training trainer, built from cfg.trainer
Setup ==
    /\ pc = "main"
    /\ trainers' = <<[devices |-> "cfg.trainer.devices", precision |-> "cfg.trainer"]>>
    /\ trainer' = 1
    /\ pc' = "select"
    /\ UNCHANGED <<cfg, fs0, fs, model_class, models, model, calls, error>>

SelectModelClass_swapped(name, task) ==
    IF Contains(name, bert)
    THEN IF task = "sgd" THEN "IntentSlotClassificationModel" ELSE "SGDQAModel"
    ELSE IF Contains(lower(name), gpt) THEN "DialogueGPTModel" ELSE Unbound

SelectModelClass_ignoresTask(name, task) ==
    IF Contains(name, bert)
    THEN "SGDQAModel"
    ELSE IF Contains(lower(name), gpt) THEN "DialogueGPTModel" ELSE Unbound

SelectModelClass_caseSensitive(name, task) ==
    IF Contains(name, bert)
    THEN IF task = "sgd" THEN "SGDQAModel" ELSE "IntentSlotClassificationModel"
    ELSE IF Contains(name, gpt) THEN "DialogueGPTModel" ELSE Unbound

\* lines 135-141: the value `model_class` is bound to, or Unbound
SelectModelClass(name, task) ==
    IF Contains(name, bert)
    THEN IF task = "sgd" THEN "SGDQAModel" ELSE "IntentSlotClassificationModel"
    ELSE IF Contains(lower(name), gpt) THEN "DialogueGPTModel" ELSE Unbound

SelectModel ==
    /\ pc = "select"
    /\ model_class' = SelectModelClass(cfg.pretrained_model_name, cfg.task)
    /\ pc' = "init"
    /\ UNCHANGED <<cfg, fs0, fs, trainers, trainer, models, model,
                   calls, error>>

\* line 143
UseCheckpoint ==
    \/ Truthy(cfg.pretrained_model)
    \/ (Truthy(cfg.nemo_path) /\ exists(cfg.nemo_path))

\* lines 150-152, after a model was loaded
TrainingDataCalls(m) ==
    IF cfg.do_training
    THEN << Call("setup_training_data", m, trainer),
            Call("setup_multiple_validation_data", m, trainer) >>
    ELSE << >>

NewModel(how) ==
    /\ models' = Append(models, [cls |-> model_class, how |-> how])
    /\ model' = Len(models) + 1
    /\ calls' = calls \o << Call(how, Len(models) + 1, trainer) >>
                      \o (IF how = "constructor" THEN << >>
                          ELSE TrainingDataCalls(Len(models) + 1))
    /\ pc' = "run"
    /\ UNCHANGED <<cfg, fs0, fs, trainers, trainer, model_class, error>>

\* lines 146, 149, 155 read `model_class` before any assignment to it
UnboundModelClass ==
    /\ pc = "init"
    /\ model_class = Unbound
    /\ error' = "UnboundLocalError"
    /\ pc' = "raised"
    /\ UNCHANGED <<cfg, fs0, fs, trainers, trainer, model_class,
                   models, model, calls>>

\* lines 144-146
LoadPretrained ==
    /\ pc = "init"
    /\ model_class # Unbound
    /\ UseCheckpoint
    /\ Truthy(cfg.pretrained_model)
    /\ NewModel("from_pretrained")

\* lines 147-149
RestoreCheckpoint ==
    /\ pc = "init"
    /\ model_class # Unbound
    /\ UseCheckpoint
    /\ ~Truthy(cfg.pretrained_model)
    /\ NewModel("restore_from")

\* lines 153-155
ConstructModel ==
    /\ pc = "init"
    /\ model_class # Unbound
    /\ ~UseCheckpoint
    /\ NewModel("constructor")

Fit_alwaysSave ==
    /\ pc = "run"
    /\ cfg.do_training
    /\ calls' = Append(calls, Call("fit", model, trainer))
    /\ pc' = "save"
    /\ UNCHANGED <<cfg, fs0, fs, trainers, trainer, model_class,
                   models, model, error>>

\* lines 157-158
Fit ==
    /\ pc = "run"
    /\ cfg.do_training
    /\ calls' = Append(calls, Call("fit", model, trainer))
    /\ pc' = IF Truthy(cfg.nemo_path) THEN "save" ELSE "test_ds"
    /\ UNCHANGED <<cfg, fs0, fs, trainers, trainer, model_class,
                   models, model, error>>

\* lines 159-160
SaveTo ==
    /\ pc = "save"
    /\ calls' = Append(calls, Call("save_to", model, trainer))
    /\ fs' = fs \cup {cfg.nemo_path}
    /\ pc' = "test_ds"
    /\ UNCHANGED <<cfg, fs0, trainers, trainer, model_class,
                   models, model, error>>

Raise(e) ==
    /\ error' = e
    /\ pc' = "raised"
    /\ UNCHANGED <<cfg, fs0, fs, trainers, trainer, model_class,
                   models, model, calls>>

\* lines 162-166
RaiseNoDatasetDir ==
    /\ pc = "run"
    /\ ~cfg.do_training
    /\ (cfg.data_dir = None \/ cfg.dialogues_example_dir = None)
    /\ Raise("ValueError")

\* lines 167-168
RaiseDataDirNotFound ==
    /\ pc = "run"
    /\ ~cfg.do_training
    /\ ~(cfg.data_dir = None \/ cfg.dialogues_example_dir = None)
    /\ ~exists(cfg.data_dir)
    /\ Raise("ValueError")

UpdateDataDirs_noExistsCheck ==
    /\ pc = "run"
    /\ ~cfg.do_training
    /\ ~(cfg.data_dir = None \/ cfg.dialogues_example_dir = None)
    /\ calls' = Append(calls, Call("update_data_dirs", model, trainer))
    /\ pc' = "test_ds"
    /\ UNCHANGED <<cfg, fs0, fs, trainers, trainer, model_class,
                   models, model, error>>

\* lines 169-171
UpdateDataDirs ==
    /\ pc = "run"
    /\ ~cfg.do_training
    /\ ~(cfg.data_dir = None \/ cfg.dialogues_example_dir = None)
    /\ exists(cfg.data_dir)
    /\ calls' = Append(calls, Call("update_data_dirs", model, trainer))
    /\ pc' = "test_ds"
    /\ UNCHANGED <<cfg, fs0, fs, trainers, trainer, model_class,
                   models, model, error>>

\* line 173
HasTestDs == cfg.test_ds = "ds_item_set"

\* line 173 false: main returns
SkipTest ==
    /\ pc = "test_ds"
    /\ ~HasTestDs
    /\ pc' = "done"
    /\ UNCHANGED <<cfg, fs0, fs, trainers, trainer, model_class,
                   models, model, calls, error>>

\* lines 173-175
SetupTest ==
    /\ pc = "test_ds"
    /\ HasTestDs
    /\ trainers' = Append(trainers, [devices |-> "1", precision |-> "16"])
    /\ trainer' = Len(trainers) + 1
    /\ calls' = Append(calls, Call("setup_multiple_test_data", model, Len(trainers) + 1))
    /\ pc' = "prepare_test"
    /\ UNCHANGED <<cfg, fs0, fs, model_class, models, model, error>>

PrepareTest_ignoresResult ==
    /\ pc = "prepare_test"
    /\ \E r \in BOOLEAN :
          /\ calls' = Append(calls, [Call("prepare_test", model, trainer) EXCEPT !.ret = ToString(r)])
          /\ pc' = "test"
    /\ UNCHANGED <<cfg, fs0, fs, trainers, trainer, model_class,
                   models, model, error>>

\* line 176: the framework decides what prepare_test returns
PrepareTest ==
    /\ pc = "prepare_test"
    /\ \E r \in BOOLEAN :
          /\ calls' = Append(calls, [Call("prepare_test", model, trainer) EXCEPT !.ret = ToString(r)])
          /\ pc' = IF r THEN "test" ELSE "done"
    /\ UNCHANGED <<cfg, fs0, fs, trainers, trainer, model_class,
                   models, model, error>>

\* line 177
Test ==
    /\ pc = "test"
    /\ calls' = Append(calls, Call("test", model, trainer))
    /\ pc' = "done"
    /\ UNCHANGED <<cfg, fs0, fs, trainers, trainer, model_class,
                   models, model, error>>

Next ==
    \/ Setup
    \/ SelectModel
    \/ UnboundModelClass
    \/ LoadPretrained
    \/ RestoreCheckpoint
    \/ ConstructModel
    \/ Fit
    \/ SaveTo
    \/ RaiseNoDatasetDir
    \/ RaiseDataDirNotFound
    \/ UpdateDataDirs
    \/ SkipTest
    \/ SetupTest
    \/ PrepareTest
    \/ Test

Spec == Init /\ [][Next]_vars

\* main() is a sequential program: every statement that can run does run
FairSpec == Spec /\ WF_vars(Next)

\* ------------------------------------------------------- claim vocabulary

Name == cfg.pretrained_model_name

Terminated == pc \in {"done", "raised"}

Selected == pc \notin {"main", "select"}

Initialized == pc \notin {"main", "select", "init"}

Ops(op) == { i \in DOMAIN calls : calls[i].op = op }

Called(op) == Ops(op) # {}

CreatingCalls ==
    { i \in DOMAIN calls :
        calls[i].op \in {"from_pretrained", "restore_from", "constructor"} }

\* every call of op1 comes after some call of op0
After(op1, op0) == \A i \in Ops(op1) : \E j \in Ops(op0) : j < i

\* a dataset directory is missing when main() starts
DatasetDirMissing ==
    \/ cfg.data_dir = None
    \/ cfg.dialogues_example_dir = None
    \/ cfg.data_dir \notin fs0

\* no pretrained-model override and no existing checkpoint when main() starts
NothingToLoad ==
    /\ cfg.pretrained_model = None
    /\ (cfg.nemo_path = None \/ cfg.nemo_path \notin fs0)

\* ----------------------------------------------------------------- claims

\* C1: when the pretrained-model name contains 'bert' and the task is 'sgd',
\* the selected model class is SGDQAModel, whatever the other settings are.
C1_BertSgdSelectsSGDQA ==
    (Selected /\ Contains(Name, bert) /\ cfg.task = "sgd")
        => model_class = "SGDQAModel"

C1_Witness ==
    /\ pc = "done"
    /\ Contains(Name, bert)
    /\ Contains(lower(Name), gpt)
    /\ cfg.task = "sgd"
    /\ model_class = "SGDQAModel"
    /\ models[model].cls = "SGDQAModel"

\* C2: when the pretrained-model name contains 'bert' and the task is not
\* 'sgd', the selected model class is IntentSlotClassificationModel.
C2_BertOtherSelectsIntentSlot ==
    (Selected /\ Contains(Name, bert) /\ cfg.task # "sgd")
        => model_class = "IntentSlotClassificationModel"

C2_Witness ==
    /\ pc = "done"
    /\ Contains(Name, bert)
    /\ cfg.task # "sgd"
    /\ model_class = "IntentSlotClassificationModel"
    /\ models[model].cls = "IntentSlotClassificationModel"

\* C3 as stated: when the name contains 'gpt' (case-insensitively), the
\* selected model class is DialogueGPTModel, for every task value and every
\* other content of the name.
C3_GptAlwaysSelectsGPT ==
    (Selected /\ Contains(lower(Name), gpt))
        => model_class = "DialogueGPTModel"

\* C3 amended: when the name contains 'gpt' (case-insensitively) and does not
\* contain 'bert' (case-sensitively), the selected model class is
\* DialogueGPTModel, for every task value.
C3_GptWithoutBertSelectsGPT ==
    (Selected /\ Contains(lower(Name), gpt) /\ ~Contains(Name, bert))
        => model_class = "DialogueGPTModel"

C3_Witness ==
    /\ pc = "done"
    /\ Contains(Name, <<"G", "P", "T">>)
    /\ ~Contains(Name, gpt)
    /\ ~Contains(Name, bert)
    /\ Contains(lower(Name), bert)
    /\ cfg.task = "sgd"
    /\ model_class = "DialogueGPTModel"
    /\ models[model].cls = "DialogueGPTModel"

\* C4: when no pretrained model is set and nemo_path is unset or does not
\* exist, the model is built by the class constructor and neither
\* from_pretrained nor restore_from is called; the constructor is used only
\* in that case.
C4_ConstructorIffNothingToLoad ==
    /\ (Terminated /\ NothingToLoad)
          => /\ Called("constructor")
             /\ ~Called("from_pretrained")
             /\ ~Called("restore_from")
    /\ Called("constructor") => NothingToLoad

\* C5: in an evaluation run with a missing dataset directory main fails with
\* ValueError, and update_data_dirs, setup_multiple_test_data, prepare_test
\* and trainer.test are never invoked; the script raises no other error.
C5_EvalWithoutDatasetRaisesValueError ==
    /\ (Terminated /\ ~cfg.do_training /\ DatasetDirMissing)
          => /\ pc = "raised"
             /\ error = "ValueError"
             /\ ~Called("update_data_dirs")
             /\ ~Called("setup_multiple_test_data")
             /\ ~Called("prepare_test")
             /\ ~Called("test")
    /\ pc = "raised"
          => (error = "ValueError" /\ ~cfg.do_training /\ DatasetDirMissing)

\* C6 as stated: the run ends in an error if and only if a dataset directory
\* is missing; in every other configuration it terminates normally.
C6_ErrorIffDatasetDirMissing ==
    Terminated => (pc = "raised" <=> DatasetDirMissing)

\* the configurations in which main() raises
RaisesError ==
    \/ (~Contains(Name, bert) /\ ~Contains(lower(Name), gpt))
    \/ (~cfg.do_training /\ DatasetDirMissing)

\* C6 amended: the run ends in an error if and only if no model class was
\* selected (the name contains neither 'bert' nor, case-insensitively, 'gpt')
\* or it is an evaluation run (do_training false) with a missing dataset
\* directory; in every other configuration the run reaches normal
\* termination after its training and/or testing steps.
C6_ExitBehaviour ==
    /\ [](pc = "raised" => RaisesError)
    /\ [](pc = "done" => (~RaisesError /\ (Called("fit") \/ Called("update_data_dirs"))))
    /\ <>Terminated

C6_Witness ==
    /\ pc = "done"
    /\ cfg.do_training
    /\ DatasetDirMissing
    /\ Called("fit")

\* C7: in every run exactly one model-creating operation is executed, before
\* any fit, save_to, update_data_dirs or test, and every later step operates
\* on that one model instance.
C7_ExactlyOneModelCreated ==
    Terminated =>
        /\ Cardinality(CreatingCalls) = 1
        /\ \A i \in DOMAIN calls :
              /\ calls[i].op \in {"fit", "save_to", "update_data_dirs", "test"}
                    => \E j \in CreatingCalls : j < i
              /\ \A j \in CreatingCalls : calls[i].model = calls[j].model

\* C8: whenever control reaches the model initializer, exactly one of the
\* three model classes has been chosen.
C8_SelectorTotal ==
    pc = "init" =>
        model_class \in {"SGDQAModel", "IntentSlotClassificationModel",
                         "DialogueGPTModel"}

\* C9: save_to is called at most once, only when do_training is true and
\* nemo_path is configured, and only after fit; an evaluation run calls
\* neither save_to nor fit.
C9_SaveOnceAfterFit ==
    /\ Cardinality(Ops("save_to")) <= 1
    /\ Called("save_to") => (cfg.do_training /\ cfg.nemo_path # None)
    /\ After("save_to", "fit")
    /\ \A i \in Ops("save_to") : calls[i].model = model /\ cfg.nemo_path \in fs
    /\ ~cfg.do_training => (~Called("save_to") /\ ~Called("fit"))
    /\ (pc \in {"save", "test_ds"} /\ cfg.do_training) => Called("fit")

C9_Witness ==
    /\ pc = "done"
    /\ Called("save_to")
    /\ Called("fit")
    /\ cfg.nemo_path \notin fs0
    /\ cfg.nemo_path \in fs

\* C10: trainer.test(model) is invoked only when test_ds has a ds_item and
\* prepare_test returned true, after setup_multiple_test_data and on a new
\* single-device trainer, not the training trainer; in a training run after
\* fit (and save_to, if any), in an evaluation run after update_data_dirs.
C10_TestOnlyWhenPrepared ==
    \A i \in Ops("test") :
        /\ cfg.test_ds = "ds_item_set"
        /\ i > 1
        /\ calls[i - 1].op = "prepare_test"
        /\ calls[i - 1].ret = "TRUE"
        /\ calls[i - 1].model = calls[i].model
        /\ calls[i - 1].trainer = calls[i].trainer
        /\ \E j \in Ops("setup_multiple_test_data") : j < i
        /\ trainers[calls[i].trainer].devices = "1"
        /\ \A j \in Ops("fit") : j < i /\ calls[j].trainer # calls[i].trainer
        /\ \A j \in Ops("save_to") : j < i
        /\ cfg.do_training
              => (Called("fit") /\ (cfg.nemo_path # None => Called("save_to")))
        /\ ~cfg.do_training
              => \E j \in Ops("update_data_dirs") : j < i

C10_Witness ==
    /\ pc = "done"
    /\ Called("test")
    /\ Called("fit")
    /\ Called("save_to")

====
